---- MODULE Spec2Model ----
(***************************************************************************)
(* Model of script/build.py: the js_workaround_patcher text rewriting and  *)
(* the main() build pipeline (wasm-pack build, patch, rename, gzip, copy). *)
(*                                                                         *)
(* A text is a sequence of lexemes.  The four marker lexemes, the two      *)
(* replacement literals, the newline and the after_load line are kept as   *)
(* the literal strings of the source; "x" stands for any other character   *)
(* run.  No marker is a substring of another marker or of a replacement,   *)
(* so matching on lexemes agrees with matching on characters.              *)
(***************************************************************************)
EXTENDS Integers, Sequences, FiniteSets, TLC

VARIABLES code, calls, pc, web, gen, gen0, generated, ran, exit

vars == <<code, calls, pc, web, gen, gen0, generated, ran, exit>>

patchVars == <<code, calls>>
mainVars == <<pc, web, gen, gen0, generated, ran, exit>>

(* ------------------------------ bounds --------------------------------- *)
MaxLen == 4
MaxPart == 1
MaxCalls == 2
MaxStatus == 2
MaxGenLen == 2

(* ------------------------- lexemes of the text ------------------------- *)
S1 == "if ((typeof URL"
E1 == "});"
S2 == "if (typeof module"
E2 == "let result"
R1 == "return imports"
NL == "\n"
after_load == "export function after_load(w,m) { wasm = w; init.__wbindgen_wasm_module = m;}"
Other == "x"

Markers == {S1, E1, S2, E2}
Alphabet == Markers \cup {R1, Other}
PartAlphabet == Markers \cup {Other}

TextsOver(A, n) == UNION {[1..k -> A] : k \in 0..n}

Has(t, a) == \E i \in 1..Len(t) : t[i] = a
Tail_(t, j) == SubSeq(t, j + 1, Len(t))
Head_(t, i) == SubSeq(t, 1, i - 1)

(* ---------------------- re.sub(r'(?ms)S.*E', R, t) --------------------- *)
\* The pattern S.*E matches at i when S stands at i and some E follows it.
MatchesAt(S, E, t, i) ==
    /\ t[i] = S
    /\ \E j \in (i + 1)..Len(t) : t[j] = E

HasMatch(S, E, t) == \E i \in 1..Len(t) : MatchesAt(S, E, t, i)

\* The regex engine reports the leftmost position at which the pattern matches.
MatchStart(S, E, t) ==
    CHOOSE i \in 1..Len(t) :
        /\ MatchesAt(S, E, t, i)
        /\ \A k \in 1..(i - 1) : ~MatchesAt(S, E, t, k)

\* Mutant: `.*?` (lazy) instead of `.*`: the match ends at the first E.
MatchEndLazy(E, t, i) ==
    CHOOSE j \in (i + 1)..Len(t) :
        /\ t[j] = E
        /\ \A k \in (i + 1)..(j - 1) : t[k] # E

\* `.*` is greedy and, under (?s), crosses newlines: the match ends at the
\* last E of the text.
MatchEnd(E, t, i) ==
    CHOOSE j \in (i + 1)..Len(t) :
        /\ t[j] = E
        /\ \A k \in (j + 1)..Len(t) : t[k] # E

RECURSIVE re_sub_strict(_, _, _, _)
\* Mutant: a substitution that requires its pattern to match.
re_sub_strict(S, E, R, t) ==
    IF ~HasMatch(S, E, t) THEN <<"re.error">>
    ELSE LET i == MatchStart(S, E, t)
             j == MatchEnd(E, t, i)
         IN  Head_(t, i) \o R \o Tail_(t, j)

RECURSIVE re_sub(_, _, _, _)
\* re.sub with count = 0: every non-overlapping match, left to right, is
\* replaced; text outside the matches is copied.
re_sub(S, E, R, t) ==
    IF ~HasMatch(S, E, t) THEN t
    ELSE LET i == MatchStart(S, E, t)
             j == MatchEnd(E, t, i)
         IN  Head_(t, i) \o R \o re_sub(S, E, R, Tail_(t, j))

Rule1(c) == re_sub(S1, E1, <<R1>>, c)

\* Mutant: rule 2 consumes its end marker without putting it back.
Rule2Drop(c) == re_sub(S2, E2, <<>>, c)

Rule2(c) == re_sub(S2, E2, <<E2>>, c)

\* Mutant: rule 2 is applied to the original input, not to rule 1's output.
PatcherStepsUnordered(c) ==
    LET l31 == Rule1(c)
        l32 == Rule2(c)
    IN  [l31 |-> l31, l32 |-> l32, ret |-> l32 \o <<NL, after_load>>]

\* Mutant: the append is skipped when the text already ends with the block.
PatcherStepsGuarded(c) ==
    LET l31 == Rule1(c)
        l32 == Rule2(l31)
        n == Len(l32)
    IN  [l31 |-> l31, l32 |-> l32,
         ret |-> IF n >= 2 /\ SubSeq(l32, n - 1, n) = <<NL, after_load>>
                 THEN l32 ELSE l32 \o <<NL, after_load>>]

\* The values of `code` after lines 31, 32 and 34 of js_workaround_patcher.
PatcherSteps(c) ==
    LET l31 == Rule1(c)
        l32 == Rule2(l31)
    IN  [l31 |-> l31, l32 |-> l32, ret |-> l32 \o <<NL, after_load>>]

js_workaround_patcher(c) == PatcherSteps(c).ret

(* ------------------------------ files ---------------------------------- *)
Absent == <<"<absent>">>
NewWasm == <<"wasm:new">>
OldWasm == <<"wasm:old">>
OldJs == <<"js:old", NL, after_load>>
OldOther == <<"other:old">>
Gz(c) == <<"gzip">> \o c

Files == {"gui.js", "gui_bg.wasm", "gui.wasm", "gui.wasm.gz", "old.js"}
EmptyDir == [f \in Files |-> Absent]

OldContent(f) ==
    CASE f = "gui.js" -> OldJs
      [] f = "gui_bg.wasm" -> OldWasm
      [] f = "gui.wasm" -> OldWasm
      [] f = "gui.wasm.gz" -> Gz(OldWasm)
      [] OTHER -> OldOther

(* ------------------- patch_file, applied to one file ------------------- *)
\* The artifact of test scenario 3: a rule-1 block, a newline, a rule-2
\* block and trailing content.
Artifact(b1, b2, trailing) ==
    <<S1>> \o b1 \o <<E1, NL, S2>> \o b2 \o <<E2>> \o trailing

Parts == TextsOver(PartAlphabet, MaxPart)

Artifacts == {Artifact(b1, b2, tr) : b1 \in Parts, b2 \in Parts, tr \in Parts}

Inputs == TextsOver(Alphabet, MaxLen) \cup Artifacts

\* patch_file(path, js_workaround_patcher): read, patch, write back.  `calls`
\* records each call of the patcher: its argument and the value of `code`
\* after each of its lines.
PatchFile ==
    /\ Len(calls) < MaxCalls
    /\ LET st == PatcherSteps(code)
       IN  /\ calls' = Append(calls, [arg |-> code, l31 |-> st.l31,
                                      l32 |-> st.l32, ret |-> st.ret])
           /\ code' = st.ret
    /\ UNCHANGED mainVars

InitPatch ==
    /\ code \in Inputs
    /\ calls = <<>>
    /\ pc = "idle"
    /\ web = EmptyDir
    /\ gen = EmptyDir
    /\ gen0 = EmptyDir
    /\ generated = Absent
    /\ ran = <<>>
    /\ exit = -1

NextPatch == PatchFile

SpecPatch == InitPatch /\ [][NextPatch]_vars

(* ------------------------------- main() -------------------------------- *)
\* Mutant: subprocess.call, which returns the status instead of raising.
subprocess_call(rc) == TRUE

\* subprocess.check_call returns normally exactly when the status is zero.
check_call(rc) == rc = 0

\* What running an external program raises in main: rc = -1 stands for a
\* program that could not be started.
Raised(rc) ==
    IF rc = -1 THEN "OSError"
    ELSE IF check_call(rc) THEN "none" ELSE "CalledProcessError"

\* Mutant: the failing subprocess's status is passed on (sys.exit(e.returncode)).
ExitWithReturncode(rc) == rc

\* main() is called with no handler around it: an exception that leaves it
\* ends the interpreter with status 1, whatever the subprocess returned.
ExitOnException(rc) == 1

\* wasm-pack build --target web --out-dir target/web, generating the text g.
wasm_pack(fs, g) == [fs EXCEPT !["gui.js"] = g, !["gui_bg.wasm"] = NewWasm]

\* Mutant: the patched code is computed and never written back.
patch_file_dropped(fs) == fs

\* patch_file('target/web/gui.js', js_workaround_patcher)
patch_file(fs) == [fs EXCEPT !["gui.js"] = js_workaround_patcher(@)]

\* shutil.move('target/web/gui_bg.wasm', 'target/web/gui.wasm')
move(fs) == [fs EXCEPT !["gui.wasm"] = fs["gui_bg.wasm"], !["gui_bg.wasm"] = Absent]

\* gzip --keep --best --force target/web/gui.wasm
gzip(fs) == [fs EXCEPT !["gui.wasm.gz"] = Gz(fs["gui.wasm"])]

\* Mutant: the destination is made a mirror of the source (rmtree + copytree).
copy_tree_mirror(src, dst) == src

\* copy_tree(src, dst): every file of src is written over dst; dst's other
\* files are not touched.
copy_tree(src, dst) == [f \in Files |-> IF src[f] # Absent THEN src[f] ELSE dst[f]]

\* A copy_tree that stopped on an error after copying the files of F.
copy_some(src, dst, F) ==
    [f \in Files |-> IF f \in F /\ src[f] # Absent THEN src[f] ELSE dst[f]]

GenTexts == TextsOver(Alphabet, MaxGenLen)
Statuses == -1..MaxStatus

Returned(step, rc, next) ==
    /\ pc' = next
    /\ ran' = Append(ran, [step |-> step, rc |-> rc, err |-> "none"])
    /\ exit' = IF next = "done" THEN 0 ELSE exit

Aborted(step, rc, err) ==
    /\ pc' = "failed"
    /\ ran' = Append(ran, [step |-> step, rc |-> rc, err |-> err])
    /\ exit' = ExitOnException(rc)

\* Lines 43-44: wasm-pack build.
Build ==
    /\ pc = "build"
    /\ \E rc \in Statuses, g \in GenTexts :
          IF Raised(rc) = "none"
          THEN /\ web' = wasm_pack(web, g)
               /\ generated' = g
               /\ Returned("build", rc, "patch")
          ELSE /\ \/ web' = web /\ generated' = generated
                  \/ web' = [web EXCEPT !["gui.js"] = g] /\ generated' = g
               /\ Aborted("build", rc, Raised(rc))
    /\ UNCHANGED <<gen, gen0, patchVars>>

\* Line 45: patch_file (read_file, patcher, write_file).
Patch ==
    /\ pc = "patch"
    /\ \/ /\ web["gui.js"] # Absent
          /\ web' = patch_file(web)
          /\ Returned("patch", -1, "move")
       \/ /\ web' = web
          /\ Aborted("patch", -1, "OSError")
       \/ /\ web["gui.js"] # Absent
          /\ web' = [web EXCEPT !["gui.js"] = <<>>]
          /\ Aborted("patch", -1, "OSError")
    /\ UNCHANGED <<gen, gen0, generated, patchVars>>

\* Line 46: shutil.move.
Move ==
    /\ pc = "move"
    /\ \/ /\ web["gui_bg.wasm"] # Absent
          /\ web' = move(web)
          /\ Returned("move", -1, "gzip")
       \/ /\ web' = web
          /\ Aborted("move", -1, "OSError")
    /\ UNCHANGED <<gen, gen0, generated, patchVars>>

\* Line 52: gzip.
Gzip ==
    /\ pc = "gzip"
    /\ \E rc \in Statuses :
          IF Raised(rc) = "none"
          THEN /\ web' = gzip(web)
               /\ Returned("gzip", rc, "copy")
          ELSE /\ web' = web
               /\ Aborted("gzip", rc, Raised(rc))
    /\ UNCHANGED <<gen, gen0, generated, patchVars>>

\* Line 57: copy_tree('target/web', 'app/src-rust-gen').
Copy ==
    /\ pc = "copy"
    /\ \/ /\ gen' = copy_tree(web, gen)
          /\ Returned("copy", -1, "done")
       \/ /\ \E F \in SUBSET Files : F # Files /\ gen' = copy_some(web, gen, F)
          /\ Aborted("copy", -1, "OSError")
    /\ UNCHANGED <<web, gen0, generated, patchVars>>

\* What an earlier run of the script left in target/web.
PrevWeb ==
    [f \in Files |-> IF f \in {"gui.js", "gui.wasm", "gui.wasm.gz"}
                     THEN OldContent(f) ELSE Absent]

InitMain ==
    /\ pc = "build"
    /\ web \in {EmptyDir, PrevWeb, [PrevWeb EXCEPT !["old.js"] = OldOther]}
    /\ gen0 \in [Files -> {Absent, OldOther}] \cup {[f \in Files |-> OldContent(f)]}
    /\ gen = gen0
    /\ generated = Absent
    /\ ran = <<>>
    /\ exit = -1
    /\ code = <<>>
    /\ calls = <<>>

NextMain == Build \/ Patch \/ Move \/ Gzip \/ Copy

SpecMain == InitMain /\ [][NextMain]_vars

(* ---------------- properties of js_workaround_patcher ------------------ *)
FirstOf(t, a) == CHOOSE i \in 1..Len(t) : t[i] = a /\ \A k \in 1..(i - 1) : t[k] # a
LastOf(t, a) == CHOOSE j \in 1..Len(t) : t[j] = a /\ \A k \in (j + 1)..Len(t) : t[k] # a
NextOf(t, a, i) ==
    CHOOSE j \in (i + 1)..Len(t) : t[j] = a /\ \A k \in (i + 1)..(j - 1) : t[k] # a
Count(t, a) == Cardinality({i \in 1..Len(t) : t[i] = a})

\* The text holds the start marker S followed, later, by an end marker E.
Contains(S, E, t) == Has(t, S) /\ Has(t, E) /\ FirstOf(t, S) < LastOf(t, E)

\* t with positions i..j replaced by the text R.
Replaced(t, i, j, R) == SubSeq(t, 1, i - 1) \o R \o SubSeq(t, j + 1, Len(t))

ToFirstEnd(S, E, R, t) ==
    Replaced(t, FirstOf(t, S), NextOf(t, E, FirstOf(t, S)), R)
ToLastEnd(S, E, R, t) ==
    Replaced(t, FirstOf(t, S), LastOf(t, E), R)

Called == {calls[k] : k \in 1..Len(calls)}
Appended == <<NL, after_load>>

\* C1 as stated: each rule replaces from its start marker to the FIRST
\* following end marker; whatever follows that end marker is preserved.
C1_ShortestSpan ==
    \A c \in Called :
        /\ Contains(S1, E1, c.arg) => c.l31 = ToFirstEnd(S1, E1, <<R1>>, c.arg)
        /\ Contains(S2, E2, c.l31) => c.l32 = ToFirstEnd(S2, E2, <<E2>>, c.l31)

\* C1 amended: each rule replaces from the first start marker to the LAST
\* end marker of the text (the longest span); only the text after the last
\* end marker is preserved.
C1_LongestSpan ==
    \A c \in Called :
        /\ Contains(S1, E1, c.arg) => c.l31 = ToLastEnd(S1, E1, <<R1>>, c.arg)
        /\ Contains(S2, E2, c.l31) => c.l32 = ToLastEnd(S2, E2, <<E2>>, c.l31)

C1_Witness ==
    \E c \in Called :
        /\ Contains(S1, E1, c.arg)
        /\ NextOf(c.arg, E1, FirstOf(c.arg, S1)) < LastOf(c.arg, E1)
        /\ c.l31 = ToLastEnd(S1, E1, <<R1>>, c.arg)
        /\ c.l31 # ToFirstEnd(S1, E1, <<R1>>, c.arg)

\* The spans the two rules match in the same text do not overlap.
Disjoint(t) ==
    \/ LastOf(t, E1) < FirstOf(t, S2)
    \/ LastOf(t, E2) < FirstOf(t, S1)

BothReplaced(t) ==
    IF LastOf(t, E1) < FirstOf(t, S2)
    THEN SubSeq(t, 1, FirstOf(t, S1) - 1) \o <<R1>>
         \o SubSeq(t, LastOf(t, E1) + 1, FirstOf(t, S2) - 1) \o <<E2>>
         \o SubSeq(t, LastOf(t, E2) + 1, Len(t))
    ELSE SubSeq(t, 1, FirstOf(t, S2) - 1) \o <<E2>>
         \o SubSeq(t, LastOf(t, E2) + 1, FirstOf(t, S1) - 1) \o <<R1>>
         \o SubSeq(t, LastOf(t, E1) + 1, Len(t))

C3_NoMatchNoChange ==
    \A c \in Called :
        /\ ~Contains(S1, E1, c.arg) => c.l31 = c.arg
        /\ ~Contains(S2, E2, c.l31) => c.l32 = c.l31
        /\ ~Contains(S1, E1, c.arg) /\ ~Contains(S2, E2, c.arg) =>
              c.ret = c.arg \o Appended

C3_Witness ==
    \E c \in Called :
        /\ Has(c.arg, S1) /\ Has(c.arg, E1) /\ Has(c.arg, S2)
        /\ ~Contains(S1, E1, c.arg) /\ ~Contains(S2, E2, c.arg)
        /\ c.ret = c.arg \o Appended

NoMarker(t) == \A a \in Markers : ~Has(t, a)

\* t is a rule-1 block closed at p, a newline, and a rule-2 block closed at q,
\* followed by trailing content.
IsArtifact(t, p, q) ==
    /\ 1 < p /\ p + 2 < q /\ q <= Len(t)
    /\ t[1] = S1 /\ t[p] = E1 /\ t[p + 1] = NL /\ t[p + 2] = S2 /\ t[q] = E2

Block1(t, p) == SubSeq(t, 2, p - 1)
Block2(t, p, q) == SubSeq(t, p + 3, q - 1)
Trailing(t, q) == SubSeq(t, q + 1, Len(t))

\* C4 as stated: for a rule-1 block (ending at its first `});`), a newline, a
\* rule-2 block (ending at its first `let result`) and marker-free trailing
\* content, the output is `return imports`, newline, `let result`, the
\* trailing content, the append block.
C4_Scenario3 ==
    \A c \in Called : \A p \in 1..Len(c.arg), q \in 1..Len(c.arg) :
        /\ IsArtifact(c.arg, p, q)
        /\ ~Has(Block1(c.arg, p), E1)
        /\ ~Has(Block2(c.arg, p, q), E2)
        /\ NoMarker(Trailing(c.arg, q))
        => c.ret = <<R1, NL, E2>> \o Trailing(c.arg, q) \o Appended

\* C4 amended: the same, provided no `});` follows the rule-1 block (in the
\* rule-2 block or in the trailing content) and the trailing content holds no
\* `let result`.
C4_Scenario3Amended ==
    \A c \in Called : \A p \in 1..Len(c.arg), q \in 1..Len(c.arg) :
        /\ IsArtifact(c.arg, p, q)
        /\ ~Has(Block2(c.arg, p, q), E1)
        /\ ~Has(Trailing(c.arg, q), E1)
        /\ ~Has(Trailing(c.arg, q), E2)
        => /\ c.l31 = <<R1, NL, S2>> \o Block2(c.arg, p, q) \o <<E2>>
                         \o Trailing(c.arg, q)
           /\ c.ret = <<R1, NL, E2>> \o Trailing(c.arg, q) \o Appended

C4_Witness ==
    \E c \in Called :
        /\ c.arg = <<S1, Other, E1, NL, S2, Other, E2, Other>>
        /\ c.ret = <<R1, NL, E2, Other>> \o Appended

\* C5: patching already-patched text gives a different text, which ends with
\* two copies of the append block.
C5_NotIdempotent ==
    \A k \in 2..Len(calls) :
        /\ calls[k].arg = calls[k - 1].ret
        /\ calls[k].ret # calls[k - 1].ret
        /\ Len(calls[k].ret) >= 4
        /\ SubSeq(calls[k].ret, Len(calls[k].ret) - 3, Len(calls[k].ret))
              = Appended \o Appended

C5_Witness ==
    /\ Len(calls) >= 2
    /\ Contains(S1, E1, calls[1].arg)
    /\ calls[2].ret = calls[1].ret \o Appended

\* One region of t, from a start marker S to an end marker E, replaced by R.
OneRegion(S, E, R, t, out) ==
    \E i \in 1..Len(t) : \E j \in (i + 1)..Len(t) :
        /\ t[i] = S /\ t[j] = E
        /\ \A k \in 1..(i - 1) : t[k] # S
        /\ out = Replaced(t, i, j, R)

\* C9: one application of a rule replaces at most one region, starting at the
\* first start marker: the output holds exactly one inserted replacement per
\* matching rule, however often the start marker occurs.
C9_SingleSubstitution ==
    \A c \in Called :
        /\ c.l31 = c.arg \/ OneRegion(S1, E1, <<R1>>, c.arg, c.l31)
        /\ c.l32 = c.l31 \/ OneRegion(S2, E2, <<E2>>, c.l31, c.l32)
        /\ Count(c.l31, R1) <= Count(c.arg, R1) + 1
        /\ Contains(S1, E1, c.arg) =>
              Count(c.l31, R1) =
                  Count(SubSeq(c.arg, 1, FirstOf(c.arg, S1) - 1), R1) + 1
                  + Count(SubSeq(c.arg, LastOf(c.arg, E1) + 1, Len(c.arg)), R1)

C9_Witness ==
    \E c \in Called :
        /\ Count(c.arg, S1) >= 2
        /\ \E i, j, k, l \in 1..Len(c.arg) :
              i < j /\ j < k /\ k < l
              /\ c.arg[i] = S1 /\ c.arg[j] = E1 /\ c.arg[k] = S1 /\ c.arg[l] = E1
        /\ Count(c.l31, R1) = 1

(* -------------------------- properties of main ------------------------- *)
Pipeline == <<"build", "patch", "move", "gzip", "copy">>

\* The step recorded in r did not complete: it raised, or its program
\* returned a non-zero status.
Failure(r) == r.err # "none" \/ r.rc > 0

Patched == js_workaround_patcher(generated)

\* C6: the copy overwrites and never deletes: after it, every file of the
\* source is in the destination with the source's content, and every other file
\* of the destination is still there, unchanged.
C6_CopyOverwritesNeverDeletes ==
    pc = "done" =>
        \A f \in Files :
            gen[f] = IF web[f] # Absent THEN web[f] ELSE gen0[f]

C6_Witness ==
    /\ pc = "done"
    /\ web["old.js"] = Absent /\ gen0["old.js"] # Absent
    /\ gen["old.js"] = gen0["old.js"]
    /\ gen0["gui.js"] # Absent /\ gen0["gui.js"] # web["gui.js"]
    /\ gen["gui.js"] = web["gui.js"]

\* C7: a failing step aborts the run: the steps run once each, in order, a
\* failed step is the last one run, and what the earlier steps produced stays.
C7_AbortOnFailure ==
    /\ Len(ran) <= Len(Pipeline)
    /\ \A k \in 1..Len(ran) :
          /\ ran[k].step = Pipeline[k]
          /\ Failure(ran[k]) => k = Len(ran) /\ pc = "failed"
    /\ pc = "failed" =>
          LET n == Len(ran) - 1
          IN  /\ n < 4 => gen = gen0
              /\ n = 1 => web["gui_bg.wasm"] = NewWasm /\ web["gui.js"] \in {generated, <<>>}
              /\ n = 2 => web["gui_bg.wasm"] = NewWasm
              /\ n >= 2 => web["gui.js"] = Patched
              /\ n >= 3 => web["gui.wasm"] = NewWasm /\ web["gui_bg.wasm"] = Absent
              /\ n >= 4 => web["gui.wasm.gz"] = Gz(NewWasm)

C7_Witness ==
    /\ pc = "failed"
    /\ Len(ran) = 4 /\ ran[4].step = "gzip" /\ ran[4].rc = MaxStatus
    /\ web["gui.js"] = Patched /\ web["gui.wasm"] = NewWasm
    /\ gen = gen0 /\ gen0["gui.js"] # Absent

FailedCall == ran[Len(ran)]

\* C8 as stated: the exit status is the status of the first failing
\* subprocess call, or zero when every step succeeds.
C8_ExitIsSubprocessStatus ==
    /\ pc = "done" => exit = 0
    /\ pc = "failed" /\ FailedCall.err = "CalledProcessError" => exit = FailedCall.rc

\* C8 amended: the exit status is 1 whenever a step fails, whatever status
\* the failing subprocess returned, and zero when every step succeeds.
C8_ExitIsOneOnFailure ==
    /\ pc = "done" <=> exit = 0
    /\ pc = "failed" <=> exit = 1
    /\ pc = "failed" => Failure(FailedCall)

C8_Witness ==
    /\ pc = "failed"
    /\ FailedCall.err = "CalledProcessError" /\ FailedCall.rc = 2
    /\ exit = 1

\* C10: the copy runs only after build, patch, rename and gzip have each
\* completed; when it runs, target/web holds the patched gui.js, gui.wasm and
\* gui.wasm.gz and no gui_bg.wasm; the run never puts an unpatched gui.js
\* into app/src-rust-gen.
C10_CopyAfterPatch ==
    /\ (pc = "copy" \/ \E k \in 1..Len(ran) : ran[k].step = "copy") =>
          /\ Len(ran) >= 4
          /\ \A k \in 1..4 : ran[k].step = Pipeline[k] /\ ~Failure(ran[k])
          /\ web["gui.js"] = Patched
          /\ web["gui.wasm"] = NewWasm
          /\ web["gui.wasm.gz"] = Gz(NewWasm)
          /\ web["gui_bg.wasm"] = Absent
    /\ gen # gen0 => \E k \in 1..Len(ran) : ran[k].step = "copy"
    /\ gen["gui.js"] # gen0["gui.js"] =>
          gen["gui.js"] = Patched /\ gen["gui.js"] # generated

C10_Witness ==
    /\ pc = "done"
    /\ generated = <<S1, E1>>
    /\ gen["gui.js"] = <<R1>> \o Appended
    /\ gen["gui.wasm.gz"] = Gz(NewWasm)
    /\ gen0["gui_bg.wasm"] = gen["gui_bg.wasm"]

====
